---- MODULE Spec2Model ----
(***************************************************************************)
(* Entrainment-adjustment pipeline of calc_entrain_adjust.ipynb:           *)
(*   - the zero-buoyancy-plume integration of one (month, lat, lon) column *)
(*     (part1/part2 loop, dhdp, np.trapz between 500 hPa and the LCL),     *)
(*   - the area-weighted ascent fractions and the objective func,          *)
(*   - the dual_annealing calibration of ehat,                             *)
(*   - the .npy files the adjustments are saved to and loaded from,        *)
(*   - the control pass followed by the 4 x 8 perturbation loop.           *)
(*                                                                         *)
(* Floating-point numbers are modelled as exact rationals <<n, d>> (d > 0, *)
(* lowest terms) extended with the IEEE specials NaN = <<0,0>>,            *)
(* +inf = <<1,0>> and -inf = <<-1,0>>.  Pressures are in units of 2500 Pa  *)
(* (500 hPa = 20, 1000 hPa = 40).                                          *)
(***************************************************************************)
EXTENDS Integers, Sequences, FiniteSets, TLC

(***************************************************************************)
(* numpy float arithmetic                                                  *)
(***************************************************************************)
RECURSIVE GCD(_, _)
GCD(a, b) == IF b = 0 THEN a ELSE GCD(b, a % b)

IntAbs(n) == IF n < 0 THEN -n ELSE n

Sign(n) == IF n < 0 THEN -1 ELSE IF n = 0 THEN 0 ELSE 1

Norm(n, d) ==
    IF d = 0 THEN <<Sign(n), 0>>
    ELSE LET dd == IntAbs(d)
             nn == IF d < 0 THEN -n ELSE n
             g  == GCD(IntAbs(nn), dd)
         IN  <<nn \div g, dd \div g>>

NaN == <<0, 0>>

PosInf == <<1, 0>>

Zero == <<0, 1>>

R(n) == <<n, 1>>

IsNaN(a) == a = NaN

IsFinite(a) == a[2] # 0

FAdd(a, b) ==
    IF IsNaN(a) \/ IsNaN(b) THEN NaN
    ELSE IF a[2] = 0 /\ b[2] = 0 THEN (IF a[1] = b[1] THEN a ELSE NaN)
    ELSE IF a[2] = 0 THEN a
    ELSE IF b[2] = 0 THEN b
    ELSE LET g == GCD(a[2], b[2])
         IN  Norm(a[1] * (b[2] \div g) + b[1] * (a[2] \div g),
                  a[2] * (b[2] \div g))

FNeg(a) == <<-a[1], a[2]>>

FSub(a, b) == FAdd(a, FNeg(b))

\* the factors are cancelled crosswise before multiplying
FMul(a, b) ==
    IF IsNaN(a) \/ IsNaN(b) THEN NaN
    ELSE IF a[2] = 0 \/ b[2] = 0 \/ a[1] = 0 \/ b[1] = 0
         THEN Norm(Sign(a[1]) * Sign(b[1]), a[2] * b[2])
    ELSE LET g1 == GCD(IntAbs(a[1]), b[2])
             g2 == GCD(IntAbs(b[1]), a[2])
         IN  Norm((a[1] \div g1) * (b[1] \div g2),
                  (a[2] \div g2) * (b[2] \div g1))

FInv(a) ==
    IF IsNaN(a) THEN NaN
    ELSE IF a[2] = 0 THEN Zero
    ELSE IF a[1] < 0 THEN <<-a[2], -a[1]>>
    ELSE IF a[1] = 0 THEN PosInf
    ELSE <<a[2], a[1]>>

\* a / b: x/0 is +-inf, 0/0 and inf/inf are NaN
FDiv(a, b) == FMul(a, FInv(b))

FAbs(a) == <<IntAbs(a[1]), a[2]>>

\* a < b; every comparison with NaN is False
FLt(a, b) ==
    IF IsNaN(a) \/ IsNaN(b) THEN FALSE
    ELSE IF a[2] = 0 /\ b[2] = 0 THEN a[1] < b[1]
    ELSE a[1] * b[2] < b[1] * a[2]

FLe(a, b) == IF IsNaN(a) \/ IsNaN(b) THEN FALSE ELSE ~FLt(b, a)

\* numpy .sum() of a sequence of floats (NaN propagates)
RECURSIVE FSum(_)
FSum(s) == IF s = <<>> THEN Zero ELSE FAdd(Head(s), FSum(Tail(s)))

(***************************************************************************)
(* Pressure axis, label slices and the trapezoidal rule                    *)
(***************************************************************************)
\* free-tropospheric reference level, 500 hPa
plev_FT == 20

\* surface reference pressure, 1000 hPa: the literal 100000. of the slices
p0 == 40

\* water_heat_vaporization, 2.5 MJ/kg
Lv == <<5, 2>>

IsIncreasing(ax) == \A i \in 1..(Len(ax) - 1) : ax[i] < ax[i + 1]

IsDecreasing(ax) == \A i \in 1..(Len(ax) - 1) : ax[i] > ax[i + 1]

\* pandas Index.slice_locs(start, end) of a monotonic index: the 0-based
\* half-open positions <<start_slice, end_slice>> of the labels between
\* start and end, both included, in the direction of the index
SliceLocs(ax, start, end) ==
    IF IsIncreasing(ax)
    THEN <<Cardinality({i \in 1..Len(ax) : ax[i] < start}),
           Cardinality({i \in 1..Len(ax) : ax[i] <= end})>>
    ELSE <<Cardinality({i \in 1..Len(ax) : ax[i] > start}),
           Cardinality({i \in 1..Len(ax) : ax[i] >= end})>>

\* Python s[a:b] for 0-based a, b >= 0: empty when a >= b
PySlice(s, a, b) ==
    LET hi == IF b > Len(s) THEN Len(s) ELSE b
    IN  IF a >= hi THEN <<>> ELSE [i \in 1..(hi - a) |-> s[a + i]]

\* field.sel(plev = slice(start, end)) of a profile on the axis ax
SelSlice(field, ax, start, end) ==
    LET locs == SliceLocs(ax, start, end)
    IN  PySlice(field, locs[1], locs[2])

\* np.diff of a sequence of pressures
Diff(x) == IF Len(x) < 2 THEN <<>> ELSE [i \in 1..(Len(x) - 1) |-> x[i + 1] - x[i]]

\* y[1:] + y[:-1]
PairSums(y) ==
    IF Len(y) < 2 THEN <<>> ELSE [i \in 1..(Len(y) - 1) |-> FAdd(y[i + 1], y[i])]

\* numpy broadcasting of two 1-D shapes
Broadcastable(m, n) == m = n \/ m = 1 \/ n = 1

BroadcastLen(m, n) == IF m = 1 THEN n ELSE IF n = 1 THEN m ELSE m

\* np.trapz with a single sample handed back as the integral
TrapzPointwise(y, x) ==
    IF Len(y) = 1 THEN y[1]
    ELSE FSum([i \in 1..(Len(y) - 1) |->
                 FDiv(FMul(R(x[i + 1] - x[i]), FAdd(y[i + 1], y[i])), R(2))])

\* np.trapz(y, x = x): (d * (y[1:] + y[:-1]) / 2.0).sum(), "ValueError" when
\* the two operands cannot be broadcast
Trapz(y, x) ==
    LET d  == Diff(x)
        ys == PairSums(y)
        n  == BroadcastLen(Len(d), Len(ys))
        dd(i) == IF Len(d) = 1 THEN d[1] ELSE d[i]
        yy(i) == IF Len(ys) = 1 THEN ys[1] ELSE ys[i]
    IN  IF ~Broadcastable(Len(d), Len(ys)) THEN "ValueError"
        ELSE FSum([i \in 1..n |-> FDiv(FMul(R(dd(i)), yy(i)), R(2))])

\* DataArray.integrate(coord = 'plev'): trapezoidal rule over the profile's
\* own coordinate, summed with skipna = False
Integrate(y, x) ==
    FSum([i \in 1..(IF Len(y) < 2 THEN 0 ELSE Len(y) - 1) |->
            FMul(FMul(R(x[i + 1] - x[i]), <<1, 2>>), FAdd(y[i + 1], y[i]))])

RECURSIVE ArgMinScan(_, _, _, _)
\* the scan of np.argmin from position i on: the position held so far is
\* replaced only by a strictly smaller distance
ArgMinScan(ax, v, i, best) ==
    IF i > Len(ax) THEN best
    ELSE ArgMinScan(ax, v, i + 1,
                    IF IntAbs(ax[i] - v) < IntAbs(ax[best] - v) THEN i ELSE best)

\* the index of the first level at or beyond v, the last level when none is
ArgFirstAtLeast(ax, v) ==
    IF \E i \in 1..Len(ax) : ax[i] >= v
    THEN (CHOOSE i \in 1..Len(ax) :
              ax[i] >= v /\ \A m \in 1..(i - 1) : ax[m] < v) - 1
    ELSE Len(ax) - 1

\* np.argmin(np.abs(plev_array - v)): 0-based index of the first minimum
ArgMinAbs(ax, v) == ArgMinScan(ax, v, 2, 1) - 1

\* the pressure axes a dataset may carry; every one holds the 500 hPa level
\* that wap.sel(plev = 50000.) and hsat.sel(plev = 50000.) require
Axes ==
    { <<20, 28, 34, 40>>,     \* 500, 700, 850, 1000 hPa
      <<40, 34, 28, 20>>,     \* the same levels, surface first
      <<12, 20, 34, 40>>,     \* with a level above 500 hPa
      <<20, 34, 40, 42>> }    \* with a level below 1000 hPa

\* largest saturation deficit of the inputs (in model units)
MaxSatDef == 1

SatDefValues == {NaN} \cup {R(v) : v \in 0..MaxSatDef}

TvProfiles(n) ==
    { [i \in 1..n |-> R(2)], [i \in 1..n |-> R(3)],
      [i \in 1..n |-> IF i = 1 THEN R(2) ELSE R(3)] }

PsValues == {34, 40, 42}

LclValues == {10, 20, 24, 31, 34, 40, 42}

VARIABLES
    pc,            \* position in the notebook
    plev_array,    \* the pressure axis of the loaded dataset
    virtual_temp,  \* T_v on the column, one value per level
    sat_def,       \* sat_spec_hum - q on the column
    ps,            \* surface pressure of the column
    lcli,          \* LCL pressure of the column
    plev_index,    \* loop variable of the part1/part2 loop (0-based)
    part1,         \* integral of T_v/p from the level to 1000 hPa
    part2,         \* integral of 1/p from the level to 1000 hPa
    dhdp,          \* the integrand on the column
    lcl_plev,      \* index of the level nearest to the LCL
    adjustment,    \* the integrated adjustment being filled
    weights,       \* np.cos(np.deg2rad(lat)), one weight per latitude
    landmask,      \* NaN where a gridpoint counts, a number where it does not
    wap500,        \* vertical velocity at 500 hPa
    hsfc,          \* surface moist static energy
    hsat500,       \* saturation moist static energy at 500 hPa
    adjustment_ctrl, \* the control adjustment read back from its file
    alpha_up,      \* last result of calc_ascent_frac
    index,         \* last result of proportion_overcome_conv_threshold
    prop,          \* last result of calc_prop
    x_cur,         \* dual_annealing: current location
    x_best,        \* dual_annealing: best location found
    evals,         \* the locations func has been evaluated at
    n_eval,        \* evaluations spent after the starting point
    n_reinit,      \* re-draws of the starting point
    fval,          \* the value func returned last
    ehat,          \* the calibrated entrainment rate, res.x
    files,         \* entrainment_adjustments/: file name -> saved array
    history,       \* the np.save and np.load calls made so far
    before,        \* the directory before the last call
    got,           \* what the last np.load returned or raised
    k,             \* index into patches
    j,             \* index into sst_inc
    integrations,  \* dataset -> number of times its columns were integrated
    data,          \* file name of an experiment -> the fields of its dataset
    pending,       \* the experiments still to be processed
    current        \* the experiment being processed

colVars == <<plev_array, virtual_temp, sat_def, ps, lcli, plev_index, part1,
             part2, dhdp, lcl_plev, adjustment>>

fracVars == <<weights, landmask, wap500, hsfc, hsat500, adjustment_ctrl,
              alpha_up, index, prop>>

optVars == <<x_cur, x_best, evals, n_eval, n_reinit, fval, ehat>>

ioVars == <<files, history, before, got, k, j, integrations>>

ordVars == <<data, pending, current>>

vars == <<pc, colVars, fracVars, optVars, ioVars, ordVars>>

\* value of a variable the running part of the notebook does not touch
Idle == "idle"

IdleColumn ==
    /\ plev_array = Idle /\ virtual_temp = Idle /\ sat_def = Idle /\ ps = Idle
    /\ lcli = Idle /\ plev_index = Idle /\ part1 = Idle /\ part2 = Idle
    /\ dhdp = Idle /\ lcl_plev = Idle /\ adjustment = Idle

IdleFrac ==
    /\ weights = Idle /\ landmask = Idle /\ wap500 = Idle /\ hsfc = Idle
    /\ hsat500 = Idle /\ adjustment_ctrl = Idle /\ alpha_up = Idle
    /\ index = Idle /\ prop = Idle

IdleIO ==
    /\ files = Idle /\ history = Idle /\ before = Idle /\ got = Idle
    /\ k = Idle /\ j = Idle /\ integrations = Idle

IdleOrd == data = Idle /\ pending = Idle /\ current = Idle

IdleOpt ==
    /\ x_cur = Idle /\ x_best = Idle /\ evals = Idle /\ n_eval = Idle
    /\ n_reinit = Idle /\ fval = Idle /\ ehat = Idle

(***************************************************************************)
(* VerticalIntegrator: one column of the control / perturbation pass       *)
(***************************************************************************)
\* np.empty: the entries are whatever the allocation holds
Uninit == "uninit"

\* pfull on the column: the pressure of each level
pfull(ax) == [i \in 1..Len(ax) |-> R(ax[i])]

virtual_temp_by_p(tv, ax) == [i \in 1..Len(ax) |-> FDiv(tv[i], pfull(ax)[i])]

inv_pfull(ax) == [i \in 1..Len(ax) |-> FDiv(R(1), pfull(ax)[i])]

\* np.log(pfull/ps).  TLC has no logarithm: ln(x) is replaced by x - 1,
\* which has the same sign, the same zero (p = ps) and is increasing too
LogRatio(p, psv) == FSub(FDiv(p, R(psv)), R(1))

\* (virtual_temp/virtual_temperature_pressure_weighted)*(-Lv*sat_def)
\*     /(pfull*np.log(pfull/ps))     at one level
DhdpAt(tv, tvpw, sd, p, psv) ==
    FDiv(FMul(FDiv(tv, tvpw), FMul(FNeg(Lv), sd)), FMul(p, LogRatio(p, psv)))

InitColumn ==
    /\ pc = "parts"
    /\ plev_array \in Axes
    /\ virtual_temp \in TvProfiles(Len(plev_array))
    /\ sat_def \in [1..Len(plev_array) -> SatDefValues]
    /\ ps \in PsValues
    /\ lcli \in {v \in LclValues : v <= ps}
    /\ plev_index = 0
    /\ part1 = [i \in 1..Len(plev_array) |-> Uninit]
    /\ part2 = [i \in 1..Len(plev_array) |-> Uninit]
    /\ dhdp = <<>>
    /\ lcl_plev = -1
    /\ adjustment = Uninit
    /\ IdleFrac
    /\ IdleOpt
    /\ IdleIO
    /\ IdleOrd

\* one iteration of "for plev_index in range(len(plev_array))"
PartStep ==
    /\ pc = "parts"
    /\ LET i        == plev_index + 1
           pressure == plev_array[i]
           part1i   == SelSlice(virtual_temp_by_p(virtual_temp, plev_array),
                                plev_array, pressure, p0)
           part2i   == SelSlice(inv_pfull(plev_array), plev_array, pressure, p0)
           coord    == SelSlice(plev_array, plev_array, pressure, p0)
           last     == plev_array[i] = plev_array[Len(plev_array)]
       IN  IF last /\ part1i = <<>>
           THEN /\ pc' = "IndexError"
                /\ UNCHANGED <<part1, part2, plev_index>>
           ELSE /\ part1' = [part1 EXCEPT ![i] =
                               IF last THEN part1i[1] ELSE Integrate(part1i, coord)]
                /\ part2' = [part2 EXCEPT ![i] =
                               IF last THEN part2i[1] ELSE Integrate(part2i, coord)]
                /\ plev_index' = plev_index + 1
                /\ pc' = IF i = Len(plev_array) THEN "dhdp" ELSE "parts"
    /\ UNCHANGED <<ordVars, ioVars, plev_array, virtual_temp, sat_def, ps, lcli, dhdp, lcl_plev,
                   adjustment, fracVars, optVars>>

\* virtual_temperature_pressure_weighted = part1/part2
virtual_temperature_pressure_weighted(p1, p2) ==
    [i \in 1..Len(p1) |-> FDiv(p1[i], p2[i])]

ComputeDhdp ==
    /\ pc = "dhdp"
    /\ dhdp' = [i \in 1..Len(plev_array) |->
                  DhdpAt(virtual_temp[i],
                         virtual_temperature_pressure_weighted(part1, part2)[i],
                         sat_def[i], pfull(plev_array)[i], ps)]
    /\ pc' = "column"
    /\ UNCHANGED <<ordVars, ioVars, plev_array, virtual_temp, sat_def, ps, lcli, plev_index, part1,
                   part2, lcl_plev, adjustment, fracVars, optVars>>

\* plev_FT_index = np.argmin(np.abs(plev_array - plev_FT))
plev_FT_index(ax) == ArgMinAbs(ax, plev_FT)

\* dhdp.sel(..., plev = slice(plev_FT, plev_array[lcl_plev]))
dhdp_500_to_lcl(field, ax, lp) == SelSlice(field, ax, plev_FT, ax[lp + 1])

\* the index slice without the nearest-LCL level
plev_500_to_lcl_open(ax, lp) == PySlice(ax, plev_FT_index(ax), lp)

\* plev_array[plev_FT_index:lcl_plev+1]
plev_500_to_lcl(ax, lp) == PySlice(ax, plev_FT_index(ax), lp + 1)

\* the body of the month/lati/loni loop for one column
IntegrateColumn ==
    /\ pc = "column"
    /\ LET lp  == ArgMinAbs(plev_array, lcli)
           res == Trapz(dhdp_500_to_lcl(dhdp, plev_array, lp),
                        plev_500_to_lcl(plev_array, lp))
       IN  /\ lcl_plev' = lp
           /\ IF res = "ValueError"
              THEN pc' = "ValueError" /\ UNCHANGED adjustment
              ELSE pc' = "done" /\ adjustment' = res
    /\ UNCHANGED <<ordVars, ioVars, plev_array, virtual_temp, sat_def, ps, lcli, plev_index, part1,
                   part2, dhdp, fracVars, optVars>>

NextColumn == PartStep \/ ComputeDhdp \/ IntegrateColumn

SpecColumn == InitColumn /\ [][NextColumn]_vars

(***************************************************************************)
(* AscentFractionEstimator: the three area-weighted fractions              *)
(***************************************************************************)
\* the latitudes of the band (degrees); weights holds one weight for each
lat == <<-15, 15>>

\* number of (month, lon) pairs a latitude weight is broadcast across
NLon == 2

\* largest latitude weight of the inputs
MaxWeight == 1

Points == (1..Len(lat)) \X (1..NLon)

\* DataArray.sum(): NaN entries are skipped, an all-NaN sum is 0
RECURSIVE XrSumOver(_, _)
XrSumOver(f, S) ==
    IF S = {} THEN Zero
    ELSE LET pt == CHOOSE q \in S : TRUE
         IN  FAdd(IF IsNaN(f[pt]) THEN Zero ELSE f[pt], XrSumOver(f, S \ {pt}))

XrSum(f) == XrSumOver(f, DOMAIN f)

\* weights.where(landmask.notnull()==False), broadcast across month and lon
weights_3Darray(w, lm) ==
    [pt \in Points |-> IF IsNaN(lm[pt]) THEN w[pt[1]] ELSE NaN]

\* DataArray.where(cond): the value where cond is True, NaN elsewhere
Where(f, cond) == [pt \in DOMAIN f |-> IF cond[pt] THEN f[pt] ELSE NaN]

\* the ratio with the non-ascending weight alone as its denominator
calc_ascent_frac_odds(wap, w, lm) ==
    LET w3  == weights_3Darray(w, lm)
        num == XrSum(Where(w3, [pt \in Points |-> FLt(wap[pt], Zero)]))
    IN  FDiv(num, FSub(XrSum(w3), num))

calc_ascent_frac(wap, w, lm) ==
    LET w3 == weights_3Darray(w, lm)
    IN  FDiv(XrSum(Where(w3, [pt \in Points |-> FLt(wap[pt], Zero)])), XrSum(w3))

proportion_overcome_conv_threshold(hs, hsat, w, lm) ==
    LET w3 == weights_3Darray(w, lm)
        instab_index == [pt \in Points |-> FSub(hs[pt], hsat[pt])]
    IN  FDiv(XrSum(Where(w3, [pt \in Points |-> FLt(Zero, instab_index[pt])])),
             XrSum(w3))

calc_prop(arr, w, lm) ==
    LET w3 == weights_3Darray(w, lm)
    IN  FDiv(XrSum(Where(w3, [pt \in Points |-> ~IsNaN(arr[pt])])), XrSum(w3))

\* a gridpoint of the inputs: land with data, or ocean with a missing, a
\* negative or a positive value
PointKinds == { <<Zero, R(-1)>>, <<NaN, NaN>>, <<NaN, R(-1)>>, <<NaN, R(1)>> }

\* The three functions are applied to the same field; each reads only its own
\* argument, so nothing is lost by not varying the fields independently.
InitFrac ==
    /\ pc = "frac"
    /\ weights \in [1..Len(lat) -> {R(v) : v \in 0..MaxWeight}]
    /\ \E scene \in [Points -> PointKinds] :
          /\ landmask = [pt \in Points |-> scene[pt][1]]
          /\ wap500 = [pt \in Points |-> scene[pt][2]]
          /\ hsfc = [pt \in Points |-> scene[pt][2]]
          /\ adjustment_ctrl = [pt \in Points |-> scene[pt][2]]
    /\ hsat500 \in {[pt \in Points |-> Zero], [pt \in Points |-> R(-2)]}
    /\ alpha_up = Uninit
    /\ index = Uninit
    /\ prop = Uninit
    /\ IdleColumn
    /\ IdleOpt
    /\ IdleIO
    /\ IdleOrd

CallCalcAscentFrac ==
    /\ pc = "frac"
    /\ alpha_up = Uninit
    /\ alpha_up' = calc_ascent_frac(wap500, weights, landmask)
    /\ UNCHANGED <<ordVars, ioVars, pc, colVars, optVars, weights, landmask, wap500, hsfc, hsat500,
                   adjustment_ctrl, index, prop>>

CallProportion ==
    /\ pc = "frac"
    /\ index = Uninit
    /\ index' = proportion_overcome_conv_threshold(hsfc, hsat500, weights, landmask)
    /\ UNCHANGED <<ordVars, ioVars, pc, colVars, optVars, weights, landmask, wap500, hsfc, hsat500,
                   adjustment_ctrl, alpha_up, prop>>

CallCalcProp ==
    /\ pc = "frac"
    /\ prop = Uninit
    /\ prop' = calc_prop(adjustment_ctrl, weights, landmask)
    /\ UNCHANGED <<ordVars, ioVars, pc, colVars, optVars, weights, landmask, wap500, hsfc, hsat500,
                   adjustment_ctrl, alpha_up, index>>

NextFrac == CallCalcAscentFrac \/ CallProportion \/ CallCalcProp

SpecFrac == InitFrac /\ [][NextFrac]_vars

(***************************************************************************)
(* EntrainmentCalibrator: func and the dual_annealing call                 *)
(***************************************************************************)
\* bounds = [(0.1, 0.2)]
lower == <<1, 10>>

upper == <<1, 5>>

\* number of steps the search interval is divided into
VisitSteps == 4

\* evaluations the optimizer spends after its starting point (for maxiter)
MaxEvals == 2

\* re-draws of a starting point with a non-finite energy (for
\* EnergyState.MAX_REINIT_COUNT)
MaxReinit == 1

\* VisitingDistribution.min_visit_bound, below the spacing of the locations
min_visit_bound == <<1, 1000>>

bound_range == FSub(upper, lower)

\* the k-th location of the grid laid over the search interval
GridPoint(g) == FAdd(lower, FMul(R(g), FDiv(bound_range, R(VisitSteps))))

\* C fmod: a - r * trunc(a / r), the sign of a
FMod(a, r) ==
    LET q == FDiv(a, r)
        t == Sign(q[1]) * (IntAbs(q[1]) \div q[2])
    IN  FSub(a, FMul(r, R(t)))

\* a visit taken as drawn, without folding it back into the bounds
VisitingNoWrap(x_visit) == x_visit

\* VisitingDistribution.visiting: the drawn location folded into the bounds
Visiting(x_visit) ==
    LET a == FSub(x_visit, lower)
        b == FAdd(FMod(a, bound_range), bound_range)
        x == FAdd(FMod(b, bound_range), lower)
    IN  IF FLt(FAbs(FSub(x, lower)), min_visit_bound)
        THEN FAdd(x, min_visit_bound) ELSE x

\* the L-BFGS-B local search keeps its iterates inside the bounds
ClipToBounds(x) == IF FLt(x, lower) THEN lower ELSE IF FLt(upper, x) THEN upper ELSE x

\* field.where(landmask.notnull()==False): the arguments handed to func
Masked(f, lm) == [pt \in Points |-> IF IsNaN(lm[pt]) THEN f[pt] ELSE NaN]

\* func(ehat, hsfc, adjustment, hsat500, wap500)
func(e, hs, adj, hsat, wap, w, lm) ==
    LET idx == proportion_overcome_conv_threshold(
                   [pt \in Points |-> FSub(hs[pt], FMul(adj[pt], e))], hsat, w, lm)
        aup == calc_ascent_frac(wap, w, lm)
    IN  FAbs(FSub(aup, idx))

\* the objective as dual_annealing calls it
J(e) ==
    func(e, Masked(hsfc, landmask), Masked(adjustment_ctrl, landmask),
         Masked(hsat500, landmask), Masked(wap500, landmask), weights, landmask)

\* the combined mask: 0 on land and where adjustment_ctrl is NaN, NaN elsewhere
AdjustedLandmask(lm, adj) ==
    LET ones == [pt \in Points |->
                    IF IsNaN(lm[pt]) /\ ~IsNaN(adj[pt]) THEN R(1) ELSE NaN]
    IN  [pt \in Points |-> IF ones[pt] # R(1) THEN Zero ELSE NaN]

\* np.cos(np.deg2rad(lat)), to two decimals
CosDeg(d) == IF d = -15 THEN <<97, 100>> ELSE <<17, 20>>

\* the rows of the control dataset: <<land mask, wap500, hsfc, adjustment>>
\* for land, coast (no adjustment), an ascending point that is unstable for
\* ehat < 0.11 and a descending point that is unstable for ehat < 0.19
RowKinds ==
    { <<Zero, R(-1), R(2), R(1)>>,
      <<NaN, R(-1), R(2), NaN>>,
      <<NaN, R(-1), <<111, 100>>, R(1)>>,
      <<NaN, R(1), <<119, 100>>, R(1)>> }

InitCalib ==
    /\ pc = "mask"
    /\ weights = [i \in 1..Len(lat) |-> CosDeg(lat[i])]
    /\ \E rows \in [1..Len(lat) -> RowKinds] :
          /\ landmask = [pt \in Points |-> rows[pt[1]][1]]
          /\ wap500 = [pt \in Points |-> rows[pt[1]][2]]
          /\ hsfc = [pt \in Points |-> rows[pt[1]][3]]
          /\ adjustment_ctrl = [pt \in Points |-> rows[pt[1]][4]]
    /\ hsat500 = [pt \in Points |-> R(1)]
    /\ alpha_up = Uninit /\ index = Uninit /\ prop = Uninit
    /\ x_cur = Uninit /\ x_best = Uninit /\ evals = {}
    /\ n_eval = 0 /\ n_reinit = 0 /\ fval = Uninit /\ ehat = Uninit
    /\ IdleColumn
    /\ IdleIO
    /\ IdleOrd

\* "need to adjust landmask": the three landmask assignments before func
AdjustLandmask ==
    /\ pc = "mask"
    /\ landmask' = AdjustedLandmask(landmask, adjustment_ctrl)
    /\ pc' = "anneal_init"
    /\ UNCHANGED <<ordVars, ioVars, colVars, optVars, weights, wap500, hsfc, hsat500,
                   adjustment_ctrl, alpha_up, index, prop>>

\* EnergyState.reset: a starting point drawn in [lower, upper); a non-finite
\* energy is retried at a new point, then ValueError
AnnealInit ==
    /\ pc = "anneal_init"
    /\ \E g \in 0..(VisitSteps - 1) :
          LET x0 == GridPoint(g)
          IN  /\ evals' = evals \cup {x0}
              /\ fval' = J(x0)
              /\ IF IsFinite(J(x0))
                 THEN /\ x_cur' = x0 /\ x_best' = x0 /\ pc' = "anneal"
                      /\ UNCHANGED n_reinit
                 ELSE IF n_reinit >= MaxReinit
                 THEN pc' = "ValueError" /\ UNCHANGED <<x_cur, x_best, n_reinit>>
                 ELSE /\ n_reinit' = n_reinit + 1
                      /\ UNCHANGED <<pc, x_cur, x_best>>
    /\ UNCHANGED <<ordVars, ioVars, colVars, fracVars, n_eval, ehat>>

\* StrategyChain.run: one visit, accepted when it lowers the energy and
\* otherwise accepted or rejected by the Metropolis draw
AnnealVisit ==
    /\ pc = "anneal"
    /\ n_eval < MaxEvals
    /\ \E g \in (-VisitSteps)..(2 * VisitSteps), accept \in BOOLEAN :
          LET x_visit == Visiting(GridPoint(g))
              e == J(x_visit)
          IN  /\ evals' = evals \cup {x_visit}
              /\ fval' = e
              /\ x_cur' = IF FLt(e, J(x_cur)) \/ accept THEN x_visit ELSE x_cur
              /\ x_best' = IF FLt(e, J(x_best)) THEN x_visit ELSE x_best
    /\ n_eval' = n_eval + 1
    /\ UNCHANGED <<ordVars, ioVars, pc, colVars, fracVars, n_reinit, ehat>>

\* StrategyChain.local_search: a bounded step from the best location, kept
\* when it lowers the energy
AnnealLocalSearch ==
    /\ pc = "anneal"
    /\ n_eval < MaxEvals
    /\ \E g \in {-1, 1} :
          LET x_ls == ClipToBounds(FAdd(x_best, FMul(R(g), FDiv(bound_range, R(VisitSteps)))))
              e == J(x_ls)
          IN  /\ evals' = evals \cup {x_ls}
              /\ fval' = e
              /\ x_best' = IF FLt(e, J(x_best)) THEN x_ls ELSE x_best
              /\ x_cur' = IF FLt(e, J(x_best)) THEN x_ls ELSE x_cur
    /\ n_eval' = n_eval + 1
    /\ UNCHANGED <<ordVars, ioVars, pc, colVars, fracVars, n_reinit, ehat>>

\* res.x taken from the current instead of the best location
ResultXCurrent(cur, best) == cur

\* res.x: the best location of the energy state
ResultX(cur, best) == best

\* the iteration cap is reached: ehat = res.x
AnnealFinish ==
    /\ pc = "anneal"
    /\ n_eval = MaxEvals
    /\ ehat' = ResultX(x_cur, x_best)
    /\ pc' = "calibrated"
    /\ UNCHANGED <<ordVars, ioVars, colVars, fracVars, x_cur, x_best, evals, n_eval, n_reinit, fval>>

NextCalib ==
    AdjustLandmask \/ AnnealInit \/ AnnealVisit \/ AnnealLocalSearch \/ AnnealFinish

SpecCalib == InitCalib /\ [][NextCalib]_vars

(***************************************************************************)
(* AdjustmentCache: np.save and np.load on entrainment_adjustments/        *)
(***************************************************************************)
sst_inc == <<"-4", "-3", "-2", "-1", "+1", "+2", "+3", "+4">>

patches == <<"100E", "140E", "180E", "220E">>

\* the file of the control experiment
CtrlKey == "entrainment_adjustments/adjustment_ctrl.npy"

\* a file name that leaves the SST increment out
ExpKeyNoDelta(patch, delta_sst) ==
    "entrainment_adjustments/adjustment" \o patch \o "_0N_" \o "K.npy"

\* the file of one perturbation experiment
ExpKey(patch, delta_sst) ==
    "entrainment_adjustments/adjustment" \o patch \o "_0N_" \o delta_sst \o "K.npy"

NoFiles == [key \in {} |-> Idle]

\* np.save that keeps a file that is already there
np_save_keep(fs, key, arr) ==
    [x \in DOMAIN fs \cup {key} |-> IF x \in DOMAIN fs THEN fs[x] ELSE arr]

\* np.save(file, arr): the file is created or overwritten
np_save(fs, key, arr) ==
    [x \in DOMAIN fs \cup {key} |-> IF x = key THEN arr ELSE fs[x]]

\* a load that reads another file of the directory
np_load_other(fs, key) ==
    IF DOMAIN fs \ {key} # {}
    THEN fs[CHOOSE x \in DOMAIN fs \ {key} : TRUE] ELSE <<"adjustment", "no file">>

\* np.load(file): the saved array, or FileNotFoundError
np_load(fs, key) == IF key \in DOMAIN fs THEN fs[key] ELSE "FileNotFoundError"

\* calls made on the directory in one behaviour
MaxOps == 4

CacheKeys == {CtrlKey, ExpKey(patches[1], sst_inc[1]), ExpKey(patches[1], sst_inc[2])}

CacheArrays == {<<Zero, R(1)>>, <<NaN, R(1)>>}

InitCache ==
    /\ pc = "cache"
    /\ files = NoFiles
    /\ history = <<>>
    /\ before = NoFiles
    /\ got = Uninit
    /\ k = Idle /\ j = Idle /\ integrations = Idle
    /\ IdleColumn /\ IdleFrac /\ IdleOrd
    /\ x_cur = Idle /\ x_best = Idle /\ evals = Idle /\ n_eval = Idle
    /\ n_reinit = Idle /\ fval = Idle /\ ehat = Idle

Put ==
    /\ pc = "cache"
    /\ Len(history) < MaxOps
    /\ \E key \in CacheKeys, arr \in CacheArrays :
          /\ files' = np_save(files, key, arr)
          /\ history' = Append(history, <<"save", key, arr>>)
    /\ before' = files
    /\ UNCHANGED <<pc, ordVars, colVars, fracVars, optVars, got, k, j, integrations>>

Get ==
    /\ pc = "cache"
    /\ Len(history) < MaxOps
    /\ \E key \in CacheKeys :
          /\ got' = np_load(files, key)
          /\ history' = Append(history, <<"load", key>>)
    /\ before' = files
    /\ UNCHANGED <<pc, ordVars, colVars, fracVars, optVars, files, k, j, integrations>>

NextCache == Put \/ Get

SpecCache == InitCache /\ [][NextCache]_vars

(***************************************************************************)
(* The notebook from the control integration to the last perturbation      *)
(***************************************************************************)
ControlDataset == "ctrl"

\* the dataset of one perturbation experiment
DatasetName(patch, delta_sst) == "data/" \o patch \o "_0N_" \o delta_sst \o "K_3d.nc"

Datasets ==
    {ControlDataset} \cup
    {DatasetName(patches[a], sst_inc[b]) : a \in 1..Len(patches), b \in 1..Len(sst_inc)}

\* the adjustment array the column loops fill from one dataset
AdjustmentOf(dataset) == <<"adjustment", dataset>>

Stale == <<"adjustment", "earlier run">>

ExperimentKeys ==
    {CtrlKey} \cup
    {ExpKey(patches[a], sst_inc[b]) : a \in 1..Len(patches), b \in 1..Len(sst_inc)}

\* the directory is empty or holds the files of an earlier run
InitFiles ==
    {NoFiles, [key \in {CtrlKey} |-> Stale], [key \in ExperimentKeys |-> Stale]}

Init ==
    /\ pc = "control"
    /\ files \in InitFiles
    /\ history = <<>>
    /\ before = Idle /\ got = Idle
    /\ k = 0 /\ j = 0
    /\ integrations = [d \in Datasets |-> 0]
    /\ adjustment = Uninit
    /\ adjustment_ctrl = Uninit
    /\ ehat = Uninit
    /\ plev_array = Idle /\ virtual_temp = Idle /\ sat_def = Idle /\ ps = Idle
    /\ lcli = Idle /\ plev_index = Idle /\ part1 = Idle /\ part2 = Idle
    /\ dhdp = Idle /\ lcl_plev = Idle
    /\ weights = Idle /\ landmask = Idle /\ wap500 = Idle /\ hsfc = Idle
    /\ hsat500 = Idle /\ alpha_up = Idle /\ index = Idle /\ prop = Idle
    /\ x_cur = Idle /\ x_best = Idle /\ evals = Idle /\ n_eval = Idle
    /\ n_reinit = Idle /\ fval = Idle
    /\ IdleOrd

pipeRest ==
    <<plev_array, virtual_temp, sat_def, ps, lcli, plev_index, part1, part2, dhdp,
      lcl_plev, weights, landmask, wap500, hsfc, hsat500, alpha_up, index, prop,
      x_cur, x_best, evals, n_eval, n_reinit, fval, before, got, data, pending,
      current>>

\* the part1/part2 loop and the column loop over the control dataset; a
\* column whose slice cannot be indexed ends the run
IntegrateControl ==
    /\ pc = "control"
    /\ \E ok \in BOOLEAN :
          IF ok
          THEN /\ adjustment' = AdjustmentOf(ControlDataset)
               /\ integrations' =
                      [integrations EXCEPT ![ControlDataset] = @ + 1]
               /\ pc' = "save_control"
          ELSE pc' = "IndexError" /\ UNCHANGED <<adjustment, integrations>>
    /\ UNCHANGED <<pipeRest, files, history, k, j, adjustment_ctrl, ehat>>

\* np.save('entrainment_adjustments/adjustment_ctrl.npy', adjustment)
SaveControl ==
    /\ pc = "save_control"
    /\ files' = np_save(files, CtrlKey, adjustment)
    /\ history' = Append(history, <<"save", CtrlKey, adjustment>>)
    /\ pc' = "load_control"
    /\ UNCHANGED <<pipeRest, k, j, integrations, adjustment, adjustment_ctrl, ehat>>

\* adjustment_ctrl = np.load('entrainment_adjustments/adjustment_ctrl.npy')
LoadControl ==
    /\ pc = "load_control"
    /\ history' = Append(history, <<"load", CtrlKey>>)
    /\ IF CtrlKey \in DOMAIN files
       THEN adjustment_ctrl' = np_load(files, CtrlKey) /\ pc' = "calibrate"
       ELSE pc' = np_load(files, CtrlKey) /\ UNCHANGED adjustment_ctrl
    /\ UNCHANGED <<pipeRest, files, k, j, integrations, adjustment, ehat>>

\* res = dual_annealing(...); ehat = res.x, or the ValueError of a
\* non-finite objective
Calibrate ==
    /\ pc = "calibrate"
    /\ \/ \E g \in 0..VisitSteps : ehat' = GridPoint(g) /\ pc' = "loop"
       \/ pc' = "ValueError" /\ UNCHANGED ehat
    /\ UNCHANGED <<pipeRest, files, history, k, j, integrations, adjustment,
                   adjustment_ctrl>>

\* a loop body that fits the entrainment rate again
IntegrateExperimentRefit ==
    /\ pc = "loop"
    /\ k < Len(patches)
    /\ LET dataset == DatasetName(patches[k + 1], sst_inc[j + 1])
       IN  /\ adjustment' = AdjustmentOf(dataset)
           /\ integrations' = [integrations EXCEPT ![dataset] = @ + 1]
           /\ ehat' = GridPoint((k + j) % (VisitSteps + 1))
           /\ pc' = "save_experiment"
    /\ UNCHANGED <<pipeRest, files, history, k, j, adjustment_ctrl>>

\* one pass of the loop body down to the column loop, for patches[k] and
\* sst_inc[j]
IntegrateExperiment ==
    /\ pc = "loop"
    /\ k < Len(patches)
    /\ LET dataset == DatasetName(patches[k + 1], sst_inc[j + 1])
       IN  \E ok \in BOOLEAN :
             IF ok
             THEN /\ adjustment' = AdjustmentOf(dataset)
                  /\ integrations' = [integrations EXCEPT ![dataset] = @ + 1]
                  /\ pc' = "save_experiment"
             ELSE pc' = "IndexError" /\ UNCHANGED <<adjustment, integrations>>
    /\ UNCHANGED <<pipeRest, files, history, k, j, adjustment_ctrl, ehat>>

\* the np.save that ends the loop body, and the step to the next j and k
SaveExperiment ==
    /\ pc = "save_experiment"
    /\ LET key == ExpKey(patches[k + 1], sst_inc[j + 1])
       IN  /\ files' = np_save(files, key, adjustment)
           /\ history' = Append(history, <<"save", key, adjustment>>)
    /\ IF j + 1 < Len(sst_inc)
       THEN j' = j + 1 /\ k' = k
       ELSE j' = 0 /\ k' = k + 1
    /\ pc' = IF j + 1 = Len(sst_inc) /\ k + 1 = Len(patches) THEN "done" ELSE "loop"
    /\ UNCHANGED <<pipeRest, integrations, adjustment, adjustment_ctrl, ehat>>

Next ==
    \/ IntegrateControl
    \/ SaveControl
    \/ LoadControl
    \/ Calibrate
    \/ IntegrateExperiment
    \/ SaveExperiment

Spec == Init /\ [][Next]_vars

(***************************************************************************)
(* The experiments processed one after the other in any order, on the      *)
(* notebook's global variables                                             *)
(***************************************************************************)
\* the fields of a dataset on one column:
\* <<plev, virtual_temp, sat_def, ps, lcl_p>>
ColumnInputs ==
    { <<<<20, 28, 34, 40>>, <<R(2), R(2), R(2), R(2)>>,
        <<R(1), R(1), R(1), R(1)>>, 42, 34>>,
      <<<<12, 20, 34, 40>>, <<R(2), R(3), R(3), R(3)>>,
        <<R(1), R(1), R(1), R(1)>>, 42, 40>>,
      <<<<40, 34, 28, 20>>, <<R(2), R(2), R(2), R(2)>>,
        <<R(1), R(1), R(1), R(1)>>, 42, 34>> }

\* the dataset opened once and read again for every later experiment
OpenDatasetOnce(d, key, previous) == IF previous = Uninit THEN d[key] ELSE d[previous]

\* xr.open_dataset of the experiment's own files
OpenDataset(d, key, previous) == d[key]

\* np.empty(shape): whatever the memory holds, here either untouched memory
\* or the array that was freed last, when it has the shape asked for
NpEmpty(n, leftover, reuse) ==
    IF reuse /\ Len(leftover) = n THEN leftover ELSE [i \in 1..n |-> Uninit]

InitOrder ==
    /\ pc = "next"
    /\ data \in [CacheKeys -> ColumnInputs]
    /\ pending = CacheKeys
    /\ current = Uninit
    /\ files = NoFiles
    /\ history = <<>>
    /\ before = Idle /\ got = Idle /\ k = Idle /\ j = Idle /\ integrations = Idle
    /\ plev_array = <<>> /\ virtual_temp = <<>> /\ sat_def = <<>>
    /\ ps = Uninit /\ lcli = Uninit /\ plev_index = 0
    /\ part1 = <<>> /\ part2 = <<>> /\ dhdp = <<>>
    /\ lcl_plev = -1 /\ adjustment = Uninit
    /\ IdleFrac /\ IdleOpt

\* the load of one experiment's fields, down to the np.empty of part1 and
\* part2; dhdp, lcl_plev and adjustment keep what the last experiment left
StartExperiment ==
    /\ pc = "next"
    /\ \E key \in pending, reuse \in BOOLEAN :
          LET ds == OpenDataset(data, key, current)
          IN  /\ current' = key
              /\ plev_array' = ds[1]
              /\ virtual_temp' = ds[2]
              /\ sat_def' = ds[3]
              /\ ps' = ds[4]
              /\ lcli' = ds[5]
              /\ part1' = NpEmpty(Len(ds[1]), part1, reuse)
              /\ part2' = NpEmpty(Len(ds[1]), part2, reuse)
    /\ plev_index' = 0
    /\ pc' = "parts"
    /\ UNCHANGED <<data, pending, ioVars, dhdp, lcl_plev, adjustment, fracVars, optVars>>

\* the np.save that ends the processing of one experiment
SaveResult ==
    /\ pc = "done"
    /\ current \in CacheKeys
    /\ files' = np_save(files, current, adjustment)
    /\ history' = Append(history, <<"save", current, adjustment>>)
    /\ pending' = pending \ {current}
    /\ pc' = "next"
    /\ UNCHANGED <<data, current, colVars, fracVars, optVars, before, got, k, j,
                   integrations>>

NextOrder == StartExperiment \/ PartStep \/ ComputeDhdp \/ IntegrateColumn \/ SaveResult

SpecOrder == InitOrder /\ [][NextOrder]_vars

(***************************************************************************)
(* Properties of the column integration                                    *)
(***************************************************************************)
\* the levels and the integrand samples that were handed to np.trapz
SliceLevels == plev_500_to_lcl(plev_array, lcl_plev)

SliceSamples == dhdp_500_to_lcl(dhdp, plev_array, lcl_plev)

\* C1: if dhdp is NaN at any level of the slice between 500 hPa and the
\* nearest-LCL level (a single-level slice included), the adjustment stored
\* for the column is NaN, never zero or another number.
C1_NaNPropagates ==
    (pc = "done" /\ \E i \in 1..Len(SliceSamples) : IsNaN(SliceSamples[i]))
        => IsNaN(adjustment)

\* C2: when the level nearest to the LCL is the 500 hPa level itself, the
\* stored adjustment is exactly zero, whatever dhdp holds on the column.
C2_ZeroWidth ==
    (pc = "done" /\ lcl_plev = plev_FT_index(plev_array)) => adjustment = Zero

C2_Witness ==
    /\ pc = "done"
    /\ lcl_plev = plev_FT_index(plev_array)
    /\ dhdp[lcl_plev + 1] # Zero
    /\ adjustment = Zero

\* the synthetic column of C3: the four levels 500, 700, 850, 1000 hPa,
\* constant virtual temperature, zero saturation deficit everywhere
C3Scenario ==
    /\ {plev_array[i] : i \in 1..Len(plev_array)} = {20, 28, 34, 40}
    /\ \A i \in 1..Len(virtual_temp) : virtual_temp[i] = virtual_temp[1]
    /\ \A i \in 1..Len(sat_def) : sat_def[i] = Zero

\* C3: on the synthetic column the integration stores an adjustment for every
\* LCL and every surface pressure, and the stored adjustment is 0, never
\* undefined.
C3_ZeroDeficitAlwaysZero ==
    C3Scenario =>
        /\ pc # "IndexError"
        /\ pc = "done" => adjustment = Zero

\* the levels of the axis that lie in [p, 1000 hPa]
LevelsInRange(ax, p) == {m \in 1..Len(ax) : p <= ax[m] /\ ax[m] <= p0}

\* C14: at every level p_k processed so far for which exactly one level of
\* the axis lies in [p_k, 1000 hPa], part1 and part2 hold the pointwise
\* values T_v/p and 1/p of that level, so part1/part2 equals T_v(p_k) and
\* is defined, whatever the order of the axis and whether or not it has
\* levels beyond 1000 hPa.
C14_SingleLevelIsPointwise ==
    \A i \in 1..plev_index :
        Cardinality(LevelsInRange(plev_array, plev_array[i])) = 1 =>
            /\ part1[i] = virtual_temp_by_p(virtual_temp, plev_array)[i]
            /\ part2[i] = inv_pfull(plev_array)[i]
            /\ FDiv(part1[i], part2[i]) = virtual_temp[i]

\* C15: the level chosen as the LCL level is a level of the axis nearest to
\* the LCL pressure, also when the LCL pressure lies beyond either end of
\* the axis: no level is strictly closer.
C15_NearestLevel ==
    pc \in {"done", "ValueError"} =>
        /\ lcl_plev \in 0..(Len(plev_array) - 1)
        /\ \A m \in 1..Len(plev_array) :
              IntAbs(plev_array[lcl_plev + 1] - lcli) <= IntAbs(plev_array[m] - lcli)

C15_Witness ==
    /\ pc = "done"
    /\ lcli < plev_array[1]
    /\ plev_array[1] < plev_FT
    /\ lcl_plev = 0

\* the levels the label slice slice(plev_FT, plev_array[lcl_plev]) selects
LabelLevels == dhdp_500_to_lcl(plev_array, plev_array, lcl_plev)

\* C16: the samples selected by pressure label and the abscissae selected by
\* index are the same levels in the same order, so np.trapz gets two
\* sequences of equal length, whether the nearest-LCL level is below, at or
\* above the 500 hPa level.
C16_LabelSliceIsIndexSlice ==
    pc \in {"done", "ValueError"} =>
        /\ LabelLevels = SliceLevels
        /\ Len(SliceSamples) = Len(SliceLevels)
        /\ \A i \in 1..Len(SliceSamples) :
              SliceSamples[i] = dhdp[plev_FT_index(plev_array) + i]
        /\ pc # "ValueError"

C16_Witness ==
    /\ pc = "done"
    /\ plev_array[1] < plev_FT
    /\ Len(SliceLevels) = 3
    /\ LabelLevels = SliceLevels
    /\ SliceLevels[1] = plev_FT /\ SliceLevels[3] = p0
    /\ IsFinite(adjustment) /\ adjustment # Zero

(***************************************************************************)
(* Properties of the ascent fractions                                      *)
(***************************************************************************)
\* the sum of the unmasked weights
UnmaskedWeight == XrSum(weights_3Darray(weights, landmask))

InUnitInterval(v) == FLe(Zero, v) /\ FLe(v, R(1))

\* C4: with non-negative weights and a non-zero sum of unmasked weights, each
\* of calc_ascent_frac, proportion_overcome_conv_threshold and calc_prop
\* returns a value in [0, 1].
C4_FractionInUnitInterval ==
    (pc = "frac" /\ UnmaskedWeight # Zero) =>
        /\ alpha_up # Uninit => InUnitInterval(alpha_up)
        /\ index # Uninit => InUnitInterval(index)
        /\ prop # Uninit => InUnitInterval(prop)

C4_Witness ==
    /\ pc = "frac"
    /\ UnmaskedWeight # Zero
    /\ alpha_up # Uninit /\ index # Uninit /\ prop # Uninit
    /\ FLt(Zero, alpha_up) /\ FLt(alpha_up, R(1))
    /\ \E pt \in Points : ~IsNaN(landmask[pt])

\* the fraction the claim describes: the weight of a point is dropped from
\* the numerator and from the denominator when the mask flags the point or
\* the field is undefined there
ClaimedFraction(field, ascends(_)) ==
    LET counted == {pt \in Points : IsNaN(landmask[pt]) /\ ~IsNaN(field[pt])}
        w == [pt \in Points |-> weights[pt[1]]]
    IN  FDiv(XrSumOver(w, {pt \in counted : ascends(field[pt])}),
             XrSumOver(w, counted))

IsNegative(v) == FLt(v, Zero)

IsPositive(v) == FLt(Zero, v)

\* C5: in the ascent fractions a gridpoint carries zero weight in the
\* numerator and in the denominator when the mask flags it or when the field
\* is undefined at it; an undefined point never counts as non-ascending.
C5_UndefinedCarriesNoWeight ==
    pc = "frac" =>
        /\ alpha_up # Uninit => alpha_up = ClaimedFraction(wap500, IsNegative)
        /\ index # Uninit =>
              index = ClaimedFraction([pt \in Points |-> FSub(hsfc[pt], hsat500[pt])],
                                      IsPositive)

(***************************************************************************)
(* Properties of the calibration                                           *)
(***************************************************************************)
\* C6: when the combined mask excludes every gridpoint (the weighted
\* denominator is zero), evaluating the objective reports an explicit
\* "no ascent-fraction signal" condition: the objective never hands back the
\* ratio 0/0 and no entrainment rate is produced.
C6_DegenerateObjectiveReported ==
    (pc # "mask" /\ fval # Uninit /\ UnmaskedWeight = Zero) =>
        /\ fval = "NoAscentFractionSignal"
        /\ ehat = Uninit

InBounds(x) == FLe(lower, x) /\ FLe(x, upper)

\* C7: every location the objective is evaluated at, and the entrainment
\* rate the calibration returns, lie in the closed interval [0.1, 0.2].
C7_WithinBounds ==
    pc \in {"anneal_init", "anneal", "calibrated", "ValueError"} =>
        /\ \A x \in evals : InBounds(x)
        /\ ehat # Uninit => InBounds(ehat)

C7_Witness ==
    /\ pc = "calibrated"
    /\ InBounds(ehat)
    /\ upper \in evals
    /\ Cardinality(evals) >= 3

RECURSIVE LastSaved(_, _)
\* the array of the most recent save of key in a history, or NotFound
LastSaved(h, key) ==
    IF h = <<>> THEN "FileNotFoundError"
    ELSE LET op == h[Len(h)]
         IN  IF op[1] = "save" /\ op[2] = key THEN op[3]
             ELSE LastSaved(SubSeq(h, 1, Len(h) - 1), key)

LastOp == history[Len(history)]

\* C9: a load of a key fails with FileNotFoundError exactly when no save of
\* that key came before it and otherwise returns the array of the most
\* recent save; a save repeated immediately leaves the directory as the
\* first one left it; and a save changes the entry of no other key.
C9_CacheSemantics ==
    (pc = "cache" /\ history # <<>>) =>
        /\ LastOp[1] = "load" =>
              /\ got = LastSaved(SubSeq(history, 1, Len(history) - 1), LastOp[2])
              /\ (got = "FileNotFoundError") <=>
                     ~\E i \in 1..(Len(history) - 1) :
                         history[i][1] = "save" /\ history[i][2] = LastOp[2]
              /\ files = before
        /\ LastOp[1] = "save" =>
              /\ \A key \in CacheKeys \ {LastOp[2]} :
                     np_load(files, key) = np_load(before, key)
              /\ np_load(files, LastOp[2]) = LastOp[3]
              /\ (Len(history) >= 2 /\ history[Len(history) - 1] = LastOp) =>
                     files = before

C9_Witness ==
    /\ pc = "cache"
    /\ Len(history) = MaxOps
    /\ history[1][1] = "save" /\ history[2][1] = "save"
    /\ history[1][2] = history[2][2] /\ history[1][3] # history[2][3]
    /\ history[3] = history[2]
    /\ LastOp = <<"load", history[1][2]>>
    /\ got = history[2][3]
    /\ Cardinality(DOMAIN files) = 1

\* C10: a complete run integrates the control dataset once and each of the
\* 32 perturbation datasets once, and ends with exactly 33 files, one per
\* experiment under its own name, each holding that experiment's array.
C10_OneEntryPerExperiment ==
    pc = "done" =>
        /\ \A d \in Datasets : integrations[d] = 1
        /\ Cardinality(Datasets) = 33
        /\ Cardinality(ExperimentKeys) = 33
        /\ DOMAIN files = ExperimentKeys
        /\ files[CtrlKey] = AdjustmentOf(ControlDataset)
        /\ \A a \in 1..Len(patches), b \in 1..Len(sst_inc) :
              files[ExpKey(patches[a], sst_inc[b])] =
                  AdjustmentOf(DatasetName(patches[a], sst_inc[b]))

C10_Witness ==
    /\ pc = "done"
    /\ Cardinality(DOMAIN files) = 33
    /\ Len(history) = 34
    /\ k = Len(patches)

PerturbationStarted == \E d \in Datasets \ {ControlDataset} : integrations[d] > 0

\* C12: every load is a load of the control file and comes after a save of
\* that file; the array the calibrator works on is the control adjustment
\* of this run; and no perturbation experiment is integrated before the
\* entrainment rate is fixed.
C12_ControlSavedThenReadThenCalibrated ==
    pc \in {"control", "save_control", "load_control", "calibrate", "loop",
            "save_experiment", "done", "IndexError", "ValueError"} =>
        /\ \A i \in 1..Len(history) :
              history[i][1] = "load" =>
                 /\ history[i][2] = CtrlKey
                 /\ \E h \in 1..(i - 1) :
                       history[h] = <<"save", CtrlKey, AdjustmentOf(ControlDataset)>>
        /\ adjustment_ctrl # Uninit => adjustment_ctrl = AdjustmentOf(ControlDataset)
        /\ pc = "calibrate" => adjustment_ctrl # Uninit
        /\ ehat # Uninit => adjustment_ctrl # Uninit
        /\ PerturbationStarted => ehat # Uninit

C12_Witness ==
    /\ pc = "save_experiment"
    /\ PerturbationStarted
    /\ Len(history) = 2
    /\ history[1][1] = "save" /\ history[2] = <<"load", CtrlKey>>
    /\ DOMAIN files = ExperimentKeys
    /\ InBounds(ehat)

\* C13: once the calibration has set the entrainment rate, no step of the
\* run changes it.
C13_EhatNeverChanges == [][ehat # Uninit => ehat' = ehat]_vars

C13_Witness ==
    /\ pc = "loop"
    /\ k = 2 /\ j = 3
    /\ ehat = GridPoint(1)
    /\ Len(history) = 21

====
